---- MODULE Spec2Model ----
(***************************************************************************)
(* Model of the node cross-reference engine (node_cross_reference.py):     *)
(* text extraction, business-flag detection, the offline-node index, the   *)
(* temporal correlator, the two disposition classifiers, the batch run and *)
(* the missing-ticket sweep.                                               *)
(*                                                                         *)
(* Texts are sequences of tokens, timestamps are ticks, Python's None is   *)
(* the integer None for optional integers and the record NoDate for        *)
(* optional date strings.                                                  *)
(***************************************************************************)
EXTENDS Integers, Sequences, FiniteSets, TLC

VARIABLES
    tickets,                    \* self.tickets: list of Ticket
    stores_with_tickets,        \* self.stores_with_tickets
    offline_nodes,              \* self.offline_nodes: store -> set of nodes
    offline_nodes_detailed,     \* self.offline_nodes_detailed: (store,node) -> OfflineNode
    saf_stores,                 \* self.saf_stores
    both_nodes_offline_stores,  \* self.both_nodes_offline_stores
    results,                    \* self.results: list of AnalysisResult
    runs,                       \* how many analyze_all_tickets calls were made
    call,                       \* the last completed or aborted call
    ret,                        \* what that call returned (or Raised)
    tickets_file,               \* GUI: self.tickets_file ("" until selected)
    report_file,                \* GUI: self.report_file ("" until selected)
    analyze_button,             \* GUI: state of the Run Analysis button
    export_button,              \* GUI: state of the Export Results button
    cross_ref,                  \* GUI: self.cross_ref, None or an analyzer
    gui_results,                \* GUI: self.results, by the analyzer that owns them
    threads,                    \* GUI: the analysis threads started so far
    after_queue                 \* GUI: callbacks scheduled with root.after(0, ...)

guiVars == <<tickets_file, report_file, analyze_button, export_button, cross_ref,
             gui_results, threads, after_queue>>

vars == <<tickets, stores_with_tickets, offline_nodes, offline_nodes_detailed,
          saf_stores, both_nodes_offline_stores, results, runs, call, ret, guiVars>>

indexVars == <<offline_nodes, offline_nodes_detailed, saf_stores,
               both_nodes_offline_stores>>

-----------------------------------------------------------------------------
(* Bounds of the model                                                     *)

\* most tickets the ticket list may hold
MaxTickets == 2
\* most analyze_all_tickets calls on one instance
MaxRuns == 1
\* most sections of one report
MaxSections == 2
\* ticks per day: timestamps are finer than a day, so that .days floors
TicksPerDay == 2
\* the day of the run
NowDay == 20
\* most tokens of a text handed to an extractor on its own
MaxLen == 2
\* most analysis threads the window starts
MaxThreads == 2
\* the current time (datetime.now()), in ticks
Now == NowDay * TicksPerDay

-----------------------------------------------------------------------------
(* Python values                                                           *)

\* None of an Optional[int] or Optional[datetime]
None == -1000

\* truthiness of an Optional[int]: None and 0 are both falsy
Truthy(x) == x # None /\ x # 0

\* date strings: no value (None), blank, unparseable, or a timestamp
NoDate == [k |-> "none", t |-> 0]
BlankDate == [k |-> "blank", t |-> 0]
BadDate == [k |-> "bad", t |-> 0]
DateAt(t) == [k |-> "ts", t |-> t]

\* Ticket._parse_date / OfflineNode._parse_date: a timestamp or None
parse_date(d) == IF d.k = "ts" THEN d.t ELSE None

\* timedelta.days: whole days, rounded toward minus infinity
DaysOf(delta) == delta \div TicksPerDay

-----------------------------------------------------------------------------
(* Text extractors.  A site text is a sequence of tokens                   *)
(*   [k |-> "brand_hash", d |-> digits]   Wendy's #<digits>                *)
(*   [k |-> "brand_code", d |-> digits]   WENDYS <digits>-FZ-SW            *)
(*   [k |-> "word", d |-> <<>>]           any other text                   *)
(* and a description a sequence of tokens [k |-> form, n |-> integer],     *)
(* where form is a node reference ("bare" NODE 1, "paren" NODE(1),         *)
(* "hash" NODE #1, "bold" **NODE1**, "esp" ESP NODE 1, "paren_sp"          *)
(* NODE( 1 ), "plural" NODES 1, "dash" NODE-1, "under" NODE_1), a bare     *)
(* keyword ("node_word", "nodes_word"), a flag phrase ("dnc" DO NOT CLOSE, *)
(* "wf" *APPROVED*, "si" PENDING PARTS) or "word".                         *)

RECURSIVE DigitsToInt(_)
\* int(<digits>)
DigitsToInt(ds) ==
    IF ds = <<>> THEN 0
    ELSE 10 * DigitsToInt(SubSeq(ds, 1, Len(ds) - 1)) + ds[Len(ds)]

RECURSIVE LStripZeros(_)
\* str.lstrip('0')
LStripZeros(ds) ==
    IF ds # <<>> /\ ds[1] = 0 THEN LStripZeros(Tail(ds)) ELSE ds

\* re.search: the position of the leftmost token of one of the kinds, or 0
FirstPos(text, kinds) ==
    IF \E i \in 1..Len(text) : text[i].k \in kinds
    THEN CHOOSE i \in 1..Len(text) :
            text[i].k \in kinds /\ \A j \in 1..(i - 1) : text[j].k \notin kinds
    ELSE 0

extract_store_number(site) ==
    LET m1 == FirstPos(site, {"brand_hash"})
        m2 == FirstPos(site, {"brand_code"})
    IN  IF m1 # 0 THEN DigitsToInt(site[m1].d)
        ELSE IF m2 # 0
        THEN LET stripped == LStripZeros(site[m2].d)
             IN  DigitsToInt(IF stripped = <<>> THEN <<0>> ELSE stripped)
        ELSE None

\* patterns[i] of extract_node_number matches a reference of these forms
NodePatternForms ==
    << {"bare", "bold", "esp"},    \* NODE\s*(\d+)
       {"paren"},                  \* NODE\s*\((\d+)\)
       {"hash"},                   \* NODE\s*#(\d+)
       {"bold"},                   \* \*\*NODE\s*(\d+)\*\*
       {"esp"},                    \* ESP\s+NODE\s*(\d+)
       {"paren", "paren_sp"},      \* NODE\(\s*(\d+)\s*\)
       {"plural"},                 \* NODES\s*(\d+)
       {"dash"},                   \* NODE-(\d+)
       {"under"} >>                \* NODE_(\d+)

\* re.search(patterns[p], desc): position of the leftmost match, or 0
NodePatternMatch(desc, p) == FirstPos(desc, NodePatternForms[p])

\* extract_node_number going on to the next pattern after a capture other
\* than 1 or 2
extract_node_number_skip_invalid(desc) ==
    LET valid == {p \in 1..Len(NodePatternForms) :
                    /\ NodePatternMatch(desc, p) # 0
                    /\ desc[NodePatternMatch(desc, p)].n \in {1, 2}}
    IN  IF valid = {} THEN None
        ELSE LET p == CHOOSE q \in valid : \A r \in valid : q <= r
             IN  desc[NodePatternMatch(desc, p)].n

extract_node_number(desc) ==
    LET matching == {p \in 1..Len(NodePatternForms) : NodePatternMatch(desc, p) # 0}
    IN  IF matching = {} THEN None
        ELSE LET p == CHOOSE q \in matching : \A r \in matching : q <= r
                 node_num == desc[NodePatternMatch(desc, p)].n
             IN  IF node_num \in {1, 2} THEN node_num ELSE None

-----------------------------------------------------------------------------
(* Flag detector                                                           *)

HasPhrase(text, kind) == \E i \in 1..Len(text) : text[i].k = kind

\* detect_business_logic_flags testing the workflow patterns ahead of the
\* do-not-close patterns
detect_business_logic_flags_workflow_first(site, description) ==
    LET combined_text == site \o description
    IN  IF HasPhrase(combined_text, "wf") THEN "workflow_status"
        ELSE IF HasPhrase(combined_text, "dnc") THEN "do_not_close"
        ELSE IF HasPhrase(combined_text, "si") THEN "special_instructions"
        ELSE ""

\* the flag name, "" when none (has_business_flag is flag # "")
detect_business_logic_flags(site, description) ==
    LET combined_text == site \o description
    IN  IF HasPhrase(combined_text, "dnc") THEN "do_not_close"
        ELSE IF HasPhrase(combined_text, "wf") THEN "workflow_status"
        ELSE IF HasPhrase(combined_text, "si") THEN "special_instructions"
        ELSE ""

-----------------------------------------------------------------------------
(* Ticket                                                                  *)

MaxDays == 7

\* Ticket.is_closed
is_closed(t) == t.resolved.k \notin {"none", "blank"}

created_datetime(t) == parse_date(t.created)

resolved_datetime(t) ==
    IF t.resolved.k \in {"none", "blank"} THEN None ELSE parse_date(t.resolved)

\* is_reopenable with the bound exclusive
is_reopenable_exclusive(t, max_days) ==
    IF ~is_closed(t) THEN FALSE
    ELSE IF resolved_datetime(t) = None THEN FALSE
    ELSE DaysOf(Now - resolved_datetime(t)) < max_days

is_reopenable(t, max_days) ==
    IF ~is_closed(t) THEN FALSE
    ELSE IF resolved_datetime(t) = None THEN FALSE
    ELSE DaysOf(Now - resolved_datetime(t)) <= max_days

-----------------------------------------------------------------------------
(* OfflineNode: a record [store_number, node_number, last_seen]            *)

last_seen_datetime(n) == parse_date(n.last_seen)

\* OfflineNode.days_offline: whole days, or None
days_offline(n) ==
    IF last_seen_datetime(n) = None THEN None
    ELSE DaysOf(Now - last_seen_datetime(n))

-----------------------------------------------------------------------------
(* Temporal correlator.  A narrative is a record [k |-> kind, d |-> n]:    *)
(* the f-string that produced it and the number it interpolates.           *)

Narr(k, d) == [k |-> k, d |-> d]
NoNarr == Narr("", 0)

\* what a call that raised returns
RaisedTC == [raised |-> TRUE, narrative |-> NoNarr, days |-> None, issue |-> FALSE]
TC(narrative, days, issue) ==
    [raised |-> FALSE, narrative |-> narrative, days |-> days, issue |-> issue]

_analyze_specific_node_temporal(ticket, offline_node) ==
    LET days == days_offline(offline_node)
        ticket_created == created_datetime(ticket)
        ticket_resolved == resolved_datetime(ticket)
        node_last_seen == last_seen_datetime(offline_node)
        node_offline_before_ticket == node_last_seen < ticket_created
        days_before == DaysOf(ticket_created - node_last_seen)
    IN  IF ticket_created = None \/ node_last_seen = None
        THEN TC(NoNarr, days, FALSE)
        ELSE IF ticket_resolved # None
        THEN IF node_last_seen > ticket_resolved /\ is_closed(ticket)
             THEN TC(Narr("anomaly", 0), days, TRUE)
             ELSE IF node_offline_before_ticket
             THEN TC(Narr("before", days_before), days, FALSE)
             ELSE TC(Narr("normal", 0), days, FALSE)
        ELSE IF node_offline_before_ticket
        THEN TC(Narr("before", days_before), days, FALSE)
        ELSE TC(Narr("around", 0), days, FALSE)

\* max(store_offline_nodes, key=days_offline) compares the keys of two or
\* more nodes, and comparing None raises TypeError
MaxRaises(nodes) ==
    Cardinality(nodes) >= 2 /\ \E n \in nodes : days_offline(n) = None

\* the days of the node max() returns (one node: its own days, None included)
LongestDays(nodes) ==
    CHOOSE d \in {days_offline(n) : n \in nodes} :
        \A n \in nodes : days_offline(n) <= d

analyze_temporal_correlation(ticket) ==
    LET store == ticket.store_number
        node_key == <<store, ticket.node_number>>
    IN  IF ~Truthy(store)
        THEN TC(Narr("no_store", 0), None, FALSE)
        ELSE IF ticket.node_number # None /\ node_key \in DOMAIN offline_nodes_detailed
        THEN _analyze_specific_node_temporal(ticket, offline_nodes_detailed[node_key])
        ELSE IF store \notin DOMAIN offline_nodes
        THEN TC(Narr("no_offline", 0), None, FALSE)
        ELSE LET offline_nodes_for_store == offline_nodes[store]
                 store_offline_nodes ==
                     {offline_nodes_detailed[<<store, n>>] :
                        n \in {m \in offline_nodes_for_store :
                                 <<store, m>> \in DOMAIN offline_nodes_detailed}}
             IN  IF store_offline_nodes # {}
                 THEN IF MaxRaises(store_offline_nodes) THEN RaisedTC
                      ELSE IF Cardinality(offline_nodes_for_store) = 1
                      THEN TC(Narr("single", LongestDays(store_offline_nodes)),
                              LongestDays(store_offline_nodes), FALSE)
                      ELSE TC(Narr("multiple", LongestDays(store_offline_nodes)),
                              LongestDays(store_offline_nodes), FALSE)
                 ELSE TC(Narr("no_timing", Cardinality(offline_nodes_for_store)),
                         None, FALSE)

-----------------------------------------------------------------------------
(* Confidence policy                                                       *)

\* determine_confidence without its business-flag rule
determine_confidence_no_flag_rule(ticket, store_in_report, node_in_report, business_flag) ==
    IF ticket.store_number = None THEN "low"
    ELSE IF ticket.node_number = None /\ store_in_report THEN "low"
    ELSE IF ~store_in_report THEN "high"
    ELSE IF store_in_report /\ ticket.node_number # None THEN "high"
    ELSE "medium"

\* determine_confidence testing the store number for truth instead of None
determine_confidence_store_truthy(ticket, store_in_report, node_in_report, business_flag) ==
    IF business_flag # "" THEN "low"
    ELSE IF ~Truthy(ticket.store_number) THEN "low"
    ELSE IF ticket.node_number = None /\ store_in_report THEN "low"
    ELSE IF ~store_in_report THEN "high"
    ELSE IF store_in_report /\ ticket.node_number # None THEN "high"
    ELSE "medium"

determine_confidence(ticket, store_in_report, node_in_report, business_flag) ==
    IF business_flag # "" THEN "low"
    ELSE IF ticket.store_number = None THEN "low"
    ELSE IF ticket.node_number = None /\ store_in_report THEN "low"
    ELSE IF ~store_in_report THEN "high"
    ELSE IF store_in_report /\ ticket.node_number # None THEN "high"
    ELSE "medium"

-----------------------------------------------------------------------------
(* AnalysisResult.  A reason is [k |-> the message, nodes |-> the nodes it *)
(* names].                                                                 *)

Reason(k, nodes) == [k |-> k, nodes |-> nodes]

\* the dataclass constructor: every field given
AnalysisResult(ticket, status, reason, sir, nir, confidence, flag, narrative, days, reopenable) ==
    [ticket |-> ticket, status |-> status, reason |-> reason,
     store_in_report |-> sir, node_in_report |-> nir,
     confidence |-> confidence, business_logic_flag |-> flag,
     temporal_analysis |-> narrative, days_offline |-> days,
     reopenable |-> reopenable]

\* the dataclass constructor called without temporal_analysis, days_offline
\* and reopenable: they take their defaults "", None and False
AnalysisResultDefaults(ticket, status, reason, sir, nir, confidence, flag) ==
    AnalysisResult(ticket, status, reason, sir, nir, confidence, flag, NoNarr, None, FALSE)

\* create_analysis_result leaving the two temporal fields at their defaults
create_analysis_result_no_temporal(ticket, status, reason, sir, nir, confidence, flag, narrative, days) ==
    AnalysisResult(ticket, status, reason, sir, nir, confidence, flag, NoNarr, None,
                   IF is_closed(ticket) THEN is_reopenable(ticket, MaxDays) ELSE TRUE)

create_analysis_result(ticket, status, reason, sir, nir, confidence, flag, narrative, days) ==
    AnalysisResult(ticket, status, reason, sir, nir, confidence, flag, narrative, days,
                   IF is_closed(ticket) THEN is_reopenable(ticket, MaxDays) ELSE TRUE)

\* the nodes _format_offline_nodes_message names
_format_offline_nodes_message(nodes, suffix) ==
    IF Cardinality(nodes) = 1 THEN Reason("Node N is offline " \o suffix, nodes)
    ELSE Reason("Nodes N and M are offline " \o suffix, nodes)

\* what a classifier call yields: a result, or an exception
Returned(r) == [raised |-> FALSE, result |-> r]
NoTicket == [number |-> 0, site |-> <<>>, description |-> <<>>, created |-> NoDate,
             resolved |-> NoDate, store_number |-> None, node_number |-> None]
Raised == [raised |-> TRUE,
           result |-> AnalysisResultDefaults(NoTicket, "", Reason("", {}), FALSE, FALSE,
                                             "", "")]

OfflineOf(store) == IF store \in DOMAIN offline_nodes THEN offline_nodes[store] ELSE {}

\* the critical condition of a store, SAF checked first ("" when none)
CriticalFlag(store) ==
    IF store \in saf_stores THEN "critical_saf"
    ELSE IF store \in both_nodes_offline_stores THEN "critical_both_nodes_offline"
    ELSE ""

\* NodeOffline asking only whether the store has any offline node
NodeOfflineAny(ticket) == OfflineOf(ticket.store_number) # {}

\* whether the ticket's own node is in the store's offline set
NodeOffline(ticket) == ticket.node_number \in OfflineOf(ticket.store_number)

\* lines 773-778: an unidentified node counts as still offline
NodeActuallyOffline(ticket) ==
    IF ticket.node_number = None THEN TRUE ELSE NodeOffline(ticket)

-----------------------------------------------------------------------------
(* Disposition classifier: open-ticket entry point                         *)

\* FlagNodeInReport asking only whether the store has any offline node
FlagNodeInReportAnyNode(ticket) == OfflineOf(ticket.store_number) # {}

\* line 826: node_in_report of the flag rule's needs_review result
FlagNodeInReport(ticket) ==
    IF Truthy(ticket.node_number)
    THEN ticket.node_number \in OfflineOf(ticket.store_number)
    ELSE FALSE

\* lines 746-834: the business-flag rule
FlagRule(ticket, business_flag, store_in_report, tc) ==
    LET offline_nodes_for_store == OfflineOf(ticket.store_number)
        node_actually_offline == NodeActuallyOffline(ticket)
    IN  IF business_flag = "workflow_status" /\ ~store_in_report
        THEN AnalysisResultDefaults(ticket, "can_close",
                 Reason("Workflow status ticket - store not in offline report", {}),
                 FALSE, FALSE,
                 determine_confidence(ticket, FALSE, FALSE, ""), business_flag)
        ELSE IF business_flag = "workflow_status" /\ ~node_actually_offline
        THEN AnalysisResultDefaults(ticket, "can_close",
                 Reason("Workflow status ticket - node is back online",
                        offline_nodes_for_store),
                 store_in_report, FALSE,
                 determine_confidence(ticket, store_in_report, FALSE, ""), business_flag)
        ELSE create_analysis_result(ticket, "needs_review",
                 Reason("flag - requires manual review", offline_nodes_for_store),
                 store_in_report, FlagNodeInReport(ticket),
                 determine_confidence(ticket, store_in_report, FALSE, business_flag),
                 business_flag, tc.narrative, tc.days)

\* lines 836-894: the store/node rules
NodeRule(ticket, business_flag, store_in_report, tc) ==
    LET offline_nodes_for_store == OfflineOf(ticket.store_number)
        node_in_report == NodeOffline(ticket)
    IN  IF ~store_in_report
        THEN AnalysisResultDefaults(ticket, "can_close",
                 Reason("Store not in offline report", {}), FALSE, FALSE,
                 determine_confidence(ticket, FALSE, FALSE, business_flag), business_flag)
        ELSE IF ticket.node_number = None
        THEN create_analysis_result(ticket, "needs_review",
                 _format_offline_nodes_message(offline_nodes_for_store,
                     "but couldn't identify specific node from description"),
                 TRUE, FALSE,
                 determine_confidence(ticket, TRUE, FALSE, business_flag),
                 business_flag, tc.narrative, tc.days)
        ELSE IF node_in_report
        THEN create_analysis_result(ticket, "needs_review",
                 Reason("Node N is confirmed offline in the report", {ticket.node_number}),
                 TRUE, TRUE,
                 determine_confidence(ticket, store_in_report, node_in_report, business_flag),
                 business_flag, tc.narrative, tc.days)
        ELSE AnalysisResultDefaults(ticket, "can_close",
                 Reason("Node N is not in offline report", offline_nodes_for_store),
                 TRUE, FALSE,
                 determine_confidence(ticket, store_in_report, node_in_report, business_flag),
                 business_flag)

\* lines 678-744 and the dispatch to the two rules above, given the flag and
\* the temporal correlation computed on entry
AnalyzeOpenRules(ticket, business_flag, tc) ==
    LET store_in_report == ticket.store_number \in DOMAIN offline_nodes
    IN  IF is_closed(ticket) /\ ~is_reopenable(ticket, MaxDays)
        THEN AnalysisResult(ticket, "closed_too_old",
                 Reason("Ticket closed more than 7 days ago", {}), FALSE, FALSE,
                 "high", business_flag, tc.narrative, tc.days, FALSE)
        ELSE IF ticket.store_number = None
        THEN AnalysisResult(ticket, "error",
                 Reason("Could not extract store number from site field", {}),
                 FALSE, FALSE,
                 determine_confidence(ticket, FALSE, FALSE, business_flag),
                 business_flag, tc.narrative, tc.days,
                 IF is_closed(ticket) THEN is_reopenable(ticket, MaxDays) ELSE TRUE)
        ELSE IF CriticalFlag(ticket.store_number) = "critical_saf"
        THEN create_analysis_result(ticket, "needs_review",
                 Reason("CRITICAL: Store has SAF failure", OfflineOf(ticket.store_number)),
                 TRUE, TRUE, "high", "critical_saf", tc.narrative, tc.days)
        ELSE IF CriticalFlag(ticket.store_number) = "critical_both_nodes_offline"
        THEN create_analysis_result(ticket, "needs_review",
                 Reason("CRITICAL: Store has BOTH nodes offline",
                        offline_nodes[ticket.store_number]),
                 TRUE, TRUE, "high", "critical_both_nodes_offline",
                 tc.narrative, tc.days)
        ELSE IF business_flag # ""
        THEN FlagRule(ticket, business_flag, store_in_report, tc)
        ELSE NodeRule(ticket, business_flag, store_in_report, tc)

analyze_ticket(ticket) ==
    LET business_flag == detect_business_logic_flags(ticket.site, ticket.description)
        tc == analyze_temporal_correlation(ticket)
    IN  IF tc.raised THEN Raised
        ELSE Returned(AnalyzeOpenRules(ticket, business_flag, tc))

-----------------------------------------------------------------------------
(* Disposition classifier: closed-ticket entry point                       *)

\* lines 914-1007, given the temporal correlation computed at line 912
AnalyzeClosedRules(ticket, tc) ==
    LET store_in_report == ticket.store_number \in DOMAIN offline_nodes
        offline_nodes_for_store == OfflineOf(ticket.store_number)
        node_in_report == NodeOffline(ticket)
    IN  IF ~store_in_report
        THEN create_analysis_result(ticket, "closed_ok",
                 Reason("Store not in offline report - ticket correctly closed", {}),
                 FALSE, FALSE, "high", "", tc.narrative, tc.days)
        ELSE IF CriticalFlag(ticket.store_number) = "critical_saf"
        THEN create_analysis_result(ticket, "suggest_reopen",
                 Reason("CRITICAL: Store has SAF failure - REOPEN",
                        offline_nodes_for_store),
                 TRUE, TRUE, "high", "critical_saf", tc.narrative, tc.days)
        ELSE IF CriticalFlag(ticket.store_number) = "critical_both_nodes_offline"
        THEN create_analysis_result(ticket, "suggest_reopen",
                 Reason("CRITICAL: Store has BOTH nodes offline - REOPEN",
                        offline_nodes_for_store),
                 TRUE, TRUE, "high", "critical_both_nodes_offline",
                 tc.narrative, tc.days)
        ELSE IF ticket.node_number = None
        THEN create_analysis_result(ticket, "suggest_reopen",
                 _format_offline_nodes_message(offline_nodes_for_store,
                     "but couldn't identify specific node - SUGGEST REVIEW FOR REOPEN"),
                 TRUE, FALSE, "medium", "", tc.narrative, tc.days)
        ELSE IF node_in_report
        THEN create_analysis_result(ticket, "suggest_reopen",
                 Reason("Node N is confirmed offline - REOPEN", {ticket.node_number}),
                 TRUE, TRUE, "high", "", tc.narrative, tc.days)
        ELSE create_analysis_result(ticket, "closed_ok",
                 Reason("Node N is online (correctly closed)", offline_nodes_for_store),
                 TRUE, FALSE, "high", "", tc.narrative, tc.days)

analyze_closed_ticket(ticket) ==
    IF ticket.store_number = None
    THEN Returned(create_analysis_result(ticket, "error",
             Reason("Could not extract store number from site field", {}),
             FALSE, FALSE, "low", "", NoNarr, None))
    ELSE LET tc == analyze_temporal_correlation(ticket)
         IN  IF tc.raised THEN Raised
             ELSE Returned(AnalyzeClosedRules(ticket, tc))

-----------------------------------------------------------------------------
(* Batch run                                                               *)

IsOpen(t) == ~is_closed(t)

\* the classifier analyze_all_tickets hands a ticket to
Dispatch(t) == IF is_closed(t) THEN analyze_closed_ticket(t) ELSE analyze_ticket(t)

\* the order in which analyze_all_tickets visits the tickets
\* AnalysisOrder visiting the tickets as loaded
AnalysisOrderAsLoaded(ts) == ts

\* (open_tickets, then closed_tickets)
AnalysisOrder(ts) == SelectSeq(ts, IsOpen) \o SelectSeq(ts, is_closed)

RECURSIVE RunLoop(_, _)
\* the two for-loops over `todo`, appending to `acc`; stops at the first
\* ticket whose analysis raises
RunLoop(todo, acc) ==
    IF todo = <<>> THEN [raised |-> FALSE, results |-> acc]
    ELSE LET o == Dispatch(todo[1])
         IN  IF o.raised THEN [raised |-> TRUE, results |-> acc]
             ELSE RunLoop(Tail(todo), Append(acc, o.result))

\* analyze_all_tickets: self.results afterwards, and whether it raised
analyze_all_tickets == RunLoop(AnalysisOrder(tickets), results)

-----------------------------------------------------------------------------
(* Ingestion.  A CSV row is [ok, site, description, created, resolved]; a  *)
(* row that is not ok makes the Ticket construction raise and is skipped.  *)

\* the Ticket of one row, numbered by its position in self.tickets
TicketOf(row, number) ==
    [number |-> number, site |-> row.site, description |-> row.description,
     created |-> row.created, resolved |-> row.resolved,
     store_number |-> extract_store_number(row.site),
     node_number |-> extract_node_number(row.description)]

\* line 531: whether load_tickets records the ticket's store
TracksStore(store_number) == Truthy(store_number)

RECURSIVE LoadRows(_, _, _)
\* the for-loop of load_tickets over the rows
LoadRows(rows, ts, stores) ==
    IF rows = <<>> THEN [tickets |-> ts, stores_with_tickets |-> stores]
    ELSE IF ~rows[1].ok THEN LoadRows(Tail(rows), ts, stores)
    ELSE LET ticket == TicketOf(rows[1], Len(ts) + 1)
         IN  LoadRows(Tail(rows), Append(ts, ticket),
                      IF TracksStore(ticket.store_number)
                      THEN stores \cup {ticket.store_number} ELSE stores)

-----------------------------------------------------------------------------
(* Offline-node index builder.  A report is [blank, sections]; a section   *)
(* is [header, saf, rich, simple]: the store number of its header (None    *)
(* if int() rejected it), whether it holds the SAF marker, the matches of  *)
(* the detailed node pattern as [node, last_seen], and the matches of the  *)
(* fallback pattern as node numbers.                                       *)

Index(on, ond, saf, both) ==
    [offline_nodes |-> on, offline_nodes_detailed |-> ond,
     saf_stores |-> saf, both_nodes_offline_stores |-> both]

\* f with key k set to v (a dict assignment)
Put(f, k, v) == [x \in DOMAIN f \cup {k} |-> IF x = k THEN v ELSE f[x]]

RECURSIVE AddRichDetailOnly(_, _, _)
\* AddRich recording the detail record but not the node in the coarse map
AddRichDetailOnly(ix, store, matches) ==
    IF matches = <<>> THEN ix
    ELSE LET m == matches[1]
             ond == Put(ix.offline_nodes_detailed, <<store, m.node>>,
                        [store_number |-> store, node_number |-> m.node,
                         last_seen |-> m.last_seen])
         IN  AddRichDetailOnly(Index(ix.offline_nodes, ond, ix.saf_stores,
                                     ix.both_nodes_offline_stores),
                               store, Tail(matches))

RECURSIVE AddRich(_, _, _)
\* lines 584-596: the loop over node_matches
AddRich(ix, store, matches) ==
    IF matches = <<>> THEN ix
    ELSE LET m == matches[1]
             on == Put(ix.offline_nodes, store, ix.offline_nodes[store] \cup {m.node})
             ond == Put(ix.offline_nodes_detailed, <<store, m.node>>,
                        [store_number |-> store, node_number |-> m.node,
                         last_seen |-> m.last_seen])
         IN  AddRich(Index(on, ond, ix.saf_stores, ix.both_nodes_offline_stores),
                     store, Tail(matches))

RECURSIVE AddSimple(_, _, _)
\* lines 599-603: the fallback loop over simple_matches
AddSimple(ix, store, matches) ==
    IF matches = <<>> THEN ix
    ELSE AddSimple(Index(Put(ix.offline_nodes, store,
                             ix.offline_nodes[store] \cup {matches[1]}),
                         ix.offline_nodes_detailed, ix.saf_stores,
                         ix.both_nodes_offline_stores),
                   store, Tail(matches))

\* lines 606-607
MarkBoth(ix, store) ==
    IF Cardinality(ix.offline_nodes[store]) >= 2
    THEN Index(ix.offline_nodes, ix.offline_nodes_detailed, ix.saf_stores,
               ix.both_nodes_offline_stores \cup {store})
    ELSE ix

\* lines 569-611: one iteration of the loop over the sections
LoadSection(ix, sec) ==
    IF sec.header = None THEN ix
    ELSE LET store == sec.header
             ix1 == Index(IF store \in DOMAIN ix.offline_nodes THEN ix.offline_nodes
                          ELSE Put(ix.offline_nodes, store, {}),
                          ix.offline_nodes_detailed,
                          IF sec.saf THEN ix.saf_stores \cup {store} ELSE ix.saf_stores,
                          ix.both_nodes_offline_stores)
             ix2 == AddRich(ix1, store, sec.rich)
             ix3 == IF sec.rich = <<>> THEN AddSimple(ix2, store, sec.simple) ELSE ix2
         IN  MarkBoth(ix3, store)

RECURSIVE LoadSections(_, _)
LoadSections(ix, sections) ==
    IF sections = <<>> THEN ix
    ELSE LoadSections(LoadSection(ix, sections[1]), Tail(sections))

\* lines 558-560: what load_offline_nodes resets before it parses
ResetCritical(ix) == Index(ix.offline_nodes, ix.offline_nodes_detailed, {}, {})

\* load_offline_nodes: the index afterwards and whether it raised
load_offline_nodes(ix, report) ==
    IF report.blank THEN [raised |-> TRUE, index |-> ix]
    ELSE IF report.sections = <<>>
    THEN [raised |-> TRUE, index |-> ResetCritical(ix)]
    ELSE [raised |-> FALSE, index |-> LoadSections(ResetCritical(ix), report.sections)]

CurrentIndex == Index(offline_nodes, offline_nodes_detailed, saf_stores,
                      both_nodes_offline_stores)

-----------------------------------------------------------------------------
(* Missing-ticket detector                                                 *)

\* MissingPriority with the both-nodes test ahead of the SAF test
MissingPriorityBothFirst(store) ==
    IF store \in both_nodes_offline_stores THEN "CRITICAL - Both Nodes"
    ELSE IF store \in saf_stores THEN "CRITICAL - SAF"
    ELSE IF Cardinality(offline_nodes[store]) > 1 THEN "High"
    ELSE "Medium"

\* lines 634-649
MissingPriority(store) ==
    IF store \in saf_stores THEN "CRITICAL - SAF"
    ELSE IF store \in both_nodes_offline_stores THEN "CRITICAL - Both Nodes"
    ELSE IF Cardinality(offline_nodes[store]) > 1 THEN "High"
    ELSE "Medium"

MissingUrgency(store) ==
    IF store \in saf_stores \/ store \in both_nodes_offline_stores THEN "Immediate"
    ELSE IF Cardinality(offline_nodes[store]) > 1 THEN "High"
    ELSE "Medium"

Advisory(store, node) ==
    [store_number |-> store, node_number |-> node,
     priority |-> MissingPriority(store), urgency |-> MissingUrgency(store),
     offline_nodes |-> offline_nodes[store],
     is_saf |-> store \in saf_stores,
     is_both_offline |-> store \in both_nodes_offline_stores]

RECURSIVE Sorted(_)
\* sorted(S) of a set of integers
Sorted(S) ==
    IF S = {} THEN <<>>
    ELSE LET m == CHOOSE x \in S : \A y \in S : x <= y
         IN  <<m>> \o Sorted(S \ {m})

RECURSIVE AdvisoriesOf(_, _)
\* lines 651-663: one advisory per node of sorted(offline_nodes)
AdvisoriesOf(store, nodes) ==
    IF nodes = <<>> THEN <<>>
    ELSE <<Advisory(store, nodes[1])>> \o AdvisoriesOf(store, Tail(nodes))

\* line 632: the stores the sweep reports
IsMissing(store) == store \notin stores_with_tickets

RECURSIVE MissingLoop(_)
\* the loop over self.offline_nodes.items(); the stores are visited in
\* ascending order here (the dict visits them in insertion order)
MissingLoop(stores) ==
    IF stores = <<>> THEN <<>>
    ELSE (IF IsMissing(stores[1])
          THEN AdvisoriesOf(stores[1], Sorted(offline_nodes[stores[1]]))
          ELSE <<>>) \o MissingLoop(Tail(stores))

get_missing_tickets == MissingLoop(Sorted(DOMAIN offline_nodes))

-----------------------------------------------------------------------------
(* Export.  A category output is the header row followed by one row per    *)
(* result of the status, or <<>> when no result has the status (no file,   *)
(* no sheet).  The ticket's priority, updated and assignment_group strings *)
(* are not fields of the model's ticket: a row holds the name of each in   *)
(* the position the code writes it.                                        *)

csv_headers ==
    <<"Ticket_Number", "Site", "Description", "Priority", "Created", "Updated",
      "Resolved", "Assignment_Group", "Ticket_Status", "Store_Number", "Node_Number",
      "Days_Offline", "Reopenable", "Confidence", "Business_Flag", "Temporal_Analysis",
      "Reason">>

headers ==
    <<"Ticket_Number", "Site", "Description", "Priority", "Created", "Updated",
      "Resolved", "Assignment_Group", "Ticket_Status", "Store_Number", "Node_Number",
      "Days_Offline", "Reopenable", "Confidence", "Business_Flag", "Temporal_Analysis",
      "Reason">>

\* t.resolved or ''
ResolvedOrBlank(t) == IF t.resolved = NoDate THEN BlankDate ELSE t.resolved

\* the list export_results hands to writer.writerow for a result
CsvRow(result) ==
    LET t == result.ticket
    IN  <<t.number, t.site, t.description, "t.priority", t.created, "t.updated",
          ResolvedOrBlank(t), "t.assignment_group",
          IF ~is_closed(t) THEN "OPEN" ELSE "CLOSED", t.store_number, t.node_number,
          result.days_offline, IF result.reopenable THEN "Yes" ELSE "No",
          result.confidence, result.business_logic_flag, result.temporal_analysis,
          result.reason>>

\* ExcelRow without the assignment-group cell
ExcelRowNoAssignmentGroup(result) ==
    LET t == result.ticket
    IN  <<t.number, t.site, t.description, "t.priority", t.created, "t.updated",
          ResolvedOrBlank(t),
          IF ~is_closed(t) THEN "OPEN" ELSE "CLOSED", t.store_number, t.node_number,
          result.days_offline, IF result.reopenable THEN "Yes" ELSE "No",
          result.confidence, result.business_logic_flag, result.temporal_analysis,
          result.reason>>

\* the list export_to_excel appends to a sheet for a result
ExcelRow(result) ==
    LET t == result.ticket
    IN  <<t.number, t.site, t.description, "t.priority", t.created, "t.updated",
          ResolvedOrBlank(t), "t.assignment_group",
          IF ~is_closed(t) THEN "OPEN" ELSE "CLOSED", t.store_number, t.node_number,
          result.days_offline, IF result.reopenable THEN "Yes" ELSE "No",
          result.confidence, result.business_logic_flag, result.temporal_analysis,
          result.reason>>

\* the statuses with a CSV file and a sheet of their own
ExportedStatuses == {"can_close", "needs_review", "suggest_reopen", "closed_ok", "error"}

\* [r for r in self.results if r.status == status]
WithStatus(status) == SelectSeq(results, LAMBDA r : r.status = status)

CsvFile(status) ==
    LET rs == WithStatus(status)
    IN  IF rs = <<>> THEN <<>>
        ELSE <<csv_headers>> \o [i \in 1..Len(rs) |-> CsvRow(rs[i])]

ExcelSheet(status) ==
    LET rs == WithStatus(status)
    IN  IF rs = <<>> THEN <<>>
        ELSE <<headers>> \o [i \in 1..Len(rs) |-> ExcelRow(rs[i])]

export_results == [status \in ExportedStatuses |-> CsvFile(status)]

export_to_excel == [status \in ExportedStatuses |-> ExcelSheet(status)]

-----------------------------------------------------------------------------
(* Inputs                                                                  *)

Word == [k |-> "word", n |-> 0]
\* "Wendy's #1 - Deposit - 8993118": store 1
SiteStore1 == <<[k |-> "brand_hash", d |-> <<1>>], [k |-> "word", d |-> <<>>]>>
\* "WENDYS 000-FZ-SW": store 0
SiteStore0 == <<[k |-> "brand_code", d |-> <<0, 0, 0>>]>>
\* a site naming no store
SiteNone == <<[k |-> "word", d |-> <<>>]>>
Sites == {SiteStore1, SiteStore0, SiteNone}

\* "ESP NODE <n> offline"
DescNode(n) == <<[k |-> "esp", n |-> n], Word>>
\* "nodes offline": no node number
DescNoNode == <<[k |-> "nodes_word", n |-> 0], Word>>
NodeTexts == {DescNode(1), DescNode(2), DescNoNode}
\* the phrases of the three flag categories, and none
FlagTexts == {<<>>, <<[k |-> "dnc", n |-> 0]>>, <<[k |-> "wf", n |-> 0]>>,
              <<[k |-> "si", n |-> 0]>>}

\* timestamps: two and ten days ago, to the tick
Recent == DateAt(Now - 2 * TicksPerDay - 1)
Old == DateAt(Now - 10 * TicksPerDay)
\* when the tickets were created
CreatedAt == DateAt(Now - 12 * TicksPerDay)
\* last-seen timestamps of the report: before the tickets, and yesterday
SeenEarly == DateAt(Now - 15 * TicksPerDay)
SeenLate == DateAt(Now - TicksPerDay)

Row(site, description, resolved) ==
    [ok |-> TRUE, site |-> site, description |-> description,
     created |-> CreatedAt, resolved |-> resolved]
BadRow == [ok |-> FALSE, site |-> <<>>, description |-> <<>>,
           created |-> NoDate, resolved |-> NoDate]

\* "DO NOT CLOSE"
DoNotClose == <<[k |-> "dnc", n |-> 0]>>

\* the rows of the batch runs: store 1 open with and without a node number,
\* store 1 long closed with a do-not-close phrase, store 0, no store, and a
\* row that does not parse
CsvRows ==
    {Row(SiteStore1, DescNode(1), NoDate), Row(SiteStore1, DescNoNode, NoDate),
     Row(SiteStore1, DescNode(1) \o DoNotClose, Old),
     Row(SiteStore0, DescNode(1), NoDate), Row(SiteNone, DescNode(1), NoDate),
     BadRow}
Csvs == UNION {[1..n -> CsvRows] : n \in 1..MaxTickets}

\* the rows of the single-ticket runs
AllRows ==
    {Row(s, d \o f, r) : s \in Sites, d \in NodeTexts, f \in FlagTexts,
                         r \in {NoDate, BadDate, Recent, Old}}

Rich(node, last_seen) == [node |-> node, last_seen |-> last_seen]
Section(header, saf, rich, simple) ==
    [header |-> header, saf |-> saf, rich |-> rich, simple |-> simple]
Report(sections) == [blank |-> FALSE, sections |-> sections]
BlankReport == [blank |-> TRUE, sections |-> <<>>]

\* what a section may list: detailed lines, or lines only the fallback reads
Contents ==
    {<<r, <<>>>> : r \in {<<>>, <<Rich(1, SeenEarly)>>, <<Rich(2, SeenLate)>>,
                          <<Rich(1, BadDate)>>,
                          <<Rich(1, SeenEarly), Rich(2, SeenLate)>>,
                          <<Rich(1, SeenEarly), Rich(2, BadDate)>>}}
      \cup {<<<<>>, s>> : s \in {<<1>>, <<2, 1>>}}

\* the sections of the index runs
Sections ==
    {Section(1, saf, <<Rich(1, SeenEarly), Rich(2, BadDate)>>, <<>>) : saf \in BOOLEAN}
      \cup {Section(1, FALSE, <<>>, <<2>>), Section(1, FALSE, <<Rich(2, SeenLate)>>, <<>>),
            Section(0, FALSE, <<Rich(1, SeenEarly)>>, <<>>),
            Section(0, FALSE, <<>>, <<2, 1>>),
            Section(0, TRUE, <<>>, <<>>), Section(1, FALSE, <<>>, <<>>)}
Reports ==
    {BlankReport, Report(<<>>)}
        \cup {Report(ss) : ss \in UNION {[1..n -> Sections] : n \in 1..MaxSections}}

\* the reports of the batch runs
PipelineReports ==
    {Report(<<Section(1, TRUE, <<Rich(1, SeenEarly)>>, <<>>)>>),
     Report(<<Section(1, TRUE, <<Rich(1, SeenEarly), Rich(2, BadDate)>>, <<>>)>>),
     Report(<<Section(0, FALSE, <<Rich(1, SeenEarly)>>, <<>>)>>)}

\* the reports of the single-ticket runs: one store, every content
TicketReports ==
    {Report(<<Section(h, saf, c[1], c[2])>>) :
        h \in {0, 1}, saf \in BOOLEAN, c \in Contents}
\* a further load that leaves the index alone (it fails) or names the other store
SecondReports ==
    {BlankReport} \cup {Report(<<Section(h, FALSE, <<>>, <<>>)>>) : h \in {0, 1}}

-----------------------------------------------------------------------------
(* The instance and its operations                                         *)

NoIndex == Index(<<>>, <<>>, {}, {})

\* the window after NodeCrossReferenceGUI.__init__: no file selected, both
\* buttons created disabled, no analyzer, no thread
GuiInit ==
    /\ tickets_file = ""
    /\ report_file = ""
    /\ analyze_button = "disabled"
    /\ export_button = "disabled"
    /\ cross_ref = None
    /\ gui_results = None
    /\ threads = <<>>
    /\ after_queue = <<>>

Init ==
    /\ tickets = <<>>
    /\ stores_with_tickets = {}
    /\ offline_nodes = <<>>
    /\ offline_nodes_detailed = <<>>
    /\ saf_stores = {}
    /\ both_nodes_offline_stores = {}
    /\ results = <<>>
    /\ runs = 0
    /\ call = "__init__"
    /\ ret = [raised |-> FALSE]
    /\ GuiInit

SetIndex(ix) ==
    /\ offline_nodes' = ix.offline_nodes
    /\ offline_nodes_detailed' = ix.offline_nodes_detailed
    /\ saf_stores' = ix.saf_stores
    /\ both_nodes_offline_stores' = ix.both_nodes_offline_stores

LoadTicketsFrom(csvs) ==
    \E csv \in csvs :
        /\ Len(tickets) + Len(csv) <= MaxTickets
        /\ LET o == LoadRows(csv, tickets, stores_with_tickets)
           IN  /\ tickets' = o.tickets
               /\ stores_with_tickets' = o.stores_with_tickets
        /\ call' = "load_tickets"
        /\ ret' = [raised |-> FALSE]
        /\ UNCHANGED <<guiVars, indexVars, results, runs>>

LoadOfflineNodesFrom(reports) ==
    \E report \in reports :
        LET o == load_offline_nodes(CurrentIndex, report)
        IN  /\ SetIndex(o.index)
            /\ call' = "load_offline_nodes"
            /\ ret' = [raised |-> o.raised]
            /\ UNCHANGED <<guiVars, tickets, stores_with_tickets, results, runs>>

LoadTickets == LoadTicketsFrom(Csvs)

LoadOfflineNodes == LoadOfflineNodesFrom(PipelineReports)

\* one analyze_all_tickets call, the instance having made fewer than limit
AnalyzeAllTicketsWithin(limit) ==
    /\ runs < limit
    /\ LET o == analyze_all_tickets
       IN  /\ results' = o.results
           /\ ret' = [raised |-> o.raised]
    /\ runs' = runs + 1
    /\ call' = "analyze_all_tickets"
    /\ UNCHANGED <<guiVars, tickets, stores_with_tickets, indexVars>>

AnalyzeAllTickets == AnalyzeAllTicketsWithin(MaxRuns)

\* a call that may follow the last run of AnalyzeAllTickets on the same
\* instance
AnalyzeAllTicketsAgain == AnalyzeAllTicketsWithin(MaxRuns + 1)

GetMissingTickets ==
    /\ call' = "get_missing_tickets"
    /\ ret' = [raised |-> FALSE, value |-> get_missing_tickets]
    /\ UNCHANGED <<guiVars, tickets, stores_with_tickets, indexVars, results, runs>>

\* AnalyzeTicket looking the store up in a way that inserts a missing key
\* (as indexing a defaultdict would)
AnalyzeTicketInsertingStore ==
    \E i \in 1..Len(tickets) :
        /\ call' = "analyze_ticket"
        /\ ret' = [raised |-> analyze_ticket(tickets[i]).raised,
                   result |-> analyze_ticket(tickets[i]).result,
                   ticket |-> tickets[i]]
        /\ offline_nodes' =
              IF tickets[i].store_number = None
                 \/ tickets[i].store_number \in DOMAIN offline_nodes
              THEN offline_nodes
              ELSE Put(offline_nodes, tickets[i].store_number, {})
        /\ UNCHANGED <<guiVars, tickets, stores_with_tickets, offline_nodes_detailed, saf_stores,
                       both_nodes_offline_stores, results, runs>>

AnalyzeTicket ==
    \E i \in 1..Len(tickets) :
        /\ call' = "analyze_ticket"
        /\ ret' = [raised |-> analyze_ticket(tickets[i]).raised,
                   result |-> analyze_ticket(tickets[i]).result,
                   ticket |-> tickets[i]]
        /\ UNCHANGED <<guiVars, tickets, stores_with_tickets, indexVars, results, runs>>

\* AnalyzeClosedTicket storing the result it returns in self.results
AnalyzeClosedTicketAppending ==
    \E i \in 1..Len(tickets) :
        /\ call' = "analyze_closed_ticket"
        /\ ret' = [raised |-> analyze_closed_ticket(tickets[i]).raised,
                   result |-> analyze_closed_ticket(tickets[i]).result,
                   ticket |-> tickets[i]]
        /\ results' = Append(results, analyze_closed_ticket(tickets[i]).result)
        /\ UNCHANGED <<guiVars, tickets, stores_with_tickets, indexVars, runs>>

AnalyzeClosedTicket ==
    \E i \in 1..Len(tickets) :
        /\ call' = "analyze_closed_ticket"
        /\ ret' = [raised |-> analyze_closed_ticket(tickets[i]).raised,
                   result |-> analyze_closed_ticket(tickets[i]).result,
                   ticket |-> tickets[i]]
        /\ UNCHANGED <<guiVars, tickets, stores_with_tickets, indexVars, results, runs>>

\* the batch object: loads, runs and sweeps in any order
Next == LoadTickets \/ LoadOfflineNodes \/ AnalyzeAllTickets \/ GetMissingTickets

Spec == Init /\ [][Next]_vars

\* the index builder alone, over every report shape
LoadAnyReport == LoadOfflineNodesFrom(Reports)

NextIndex == LoadAnyReport

SpecIndex == Init /\ [][NextIndex]_vars

\* one ticket and one index, classified through each entry point
InitTicket ==
    \E row \in AllRows, r1 \in TicketReports, r2 \in SecondReports :
        LET t == LoadRows(<<row>>, <<>>, {})
            ix == load_offline_nodes(load_offline_nodes(NoIndex, r1).index, r2).index
        IN  /\ tickets = t.tickets
            /\ stores_with_tickets = t.stores_with_tickets
            /\ offline_nodes = ix.offline_nodes
            /\ offline_nodes_detailed = ix.offline_nodes_detailed
            /\ saf_stores = ix.saf_stores
            /\ both_nodes_offline_stores = ix.both_nodes_offline_stores
            /\ results = <<>>
            /\ runs = 0
            /\ call = "load_offline_nodes"
            /\ ret = [raised |-> FALSE]
            /\ GuiInit

NextTicket == AnalyzeTicket \/ AnalyzeClosedTicket

SpecTicket == InitTicket /\ [][NextTicket]_vars

\* the category outputs of one ticket's run
ExportResults ==
    /\ call' = "export_results"
    /\ ret' = [raised |-> FALSE, csv |-> export_results, excel |-> export_to_excel]
    /\ UNCHANGED <<guiVars, tickets, stores_with_tickets, indexVars, results, runs>>

NextExport == AnalyzeAllTickets \/ ExportResults

SpecExport == InitTicket /\ [][NextExport]_vars

\* the temporal correlator on its own and within analyze_ticket: one ticket,
\* whose created string may not parse, and the index of one report
TemporalTickets ==
    {[TicketOf(Row(s, d \o f, r), 1) EXCEPT !.created = c] :
        s \in {SiteStore1, SiteStore0}, d \in NodeTexts, f \in {<<>>, DoNotClose},
        r \in {NoDate, Recent, Old}, c \in {CreatedAt, BadDate}}

InitTemporal ==
    \E t \in TemporalTickets, r1 \in TicketReports :
        LET ix == load_offline_nodes(NoIndex, r1).index
        IN  /\ tickets = <<t>>
            /\ stores_with_tickets = {}
            /\ offline_nodes = ix.offline_nodes
            /\ offline_nodes_detailed = ix.offline_nodes_detailed
            /\ saf_stores = ix.saf_stores
            /\ both_nodes_offline_stores = ix.both_nodes_offline_stores
            /\ results = <<>>
            /\ runs = 0
            /\ call = "load_offline_nodes"
            /\ ret = [raised |-> FALSE]
            /\ GuiInit

AnalyzeTemporalCorrelation ==
    /\ call' = "analyze_temporal_correlation"
    /\ ret' = [raised |-> analyze_temporal_correlation(tickets[1]).raised,
               narrative |-> analyze_temporal_correlation(tickets[1]).narrative,
               days |-> analyze_temporal_correlation(tickets[1]).days,
               issue |-> analyze_temporal_correlation(tickets[1]).issue]
    /\ UNCHANGED <<guiVars, tickets, stores_with_tickets, indexVars, results, runs>>

NextTemporal == AnalyzeTemporalCorrelation \/ AnalyzeTicket

SpecTemporal == InitTemporal /\ [][NextTemporal]_vars

\* the sweep over every index the builder yields, no ticket loaded
NextMissing == LoadAnyReport \/ GetMissingTickets

SpecMissing == Init /\ [][NextMissing]_vars

\* one ticket and one index: the two classifiers, the sweep and the run
NextFrame == AnalyzeTicket \/ AnalyzeClosedTicket \/ GetMissingTickets \/ AnalyzeAllTickets

SpecFrame == InitTicket /\ [][NextFrame]_vars

\* one ticket and one index, the run repeated on the same instance
NextRerun == AnalyzeAllTicketsAgain

SpecRerun == InitTicket /\ [][NextRerun]_vars

-----------------------------------------------------------------------------
(* The window.  Handlers run one at a time on the UI thread; an analysis   *)
(* thread is [pc, used]: the call of _run_analysis_thread it is about to   *)
(* make and the analyzers it has called so far.  An analyzer is named by   *)
(* the index of the thread that created it.  root.after(0, f) appends f to *)
(* after_queue, which the UI thread serves in order.                       *)

engineVars == <<tickets, stores_with_tickets, indexVars, results, runs>>

\* what the file dialog returns: "" when cancelled
Filenames == {"", "file"}

\* the button state update_analysis_button_state sets
update_analysis_button_state(tf, rf) ==
    IF tf # "" /\ rf # "" THEN "normal" ELSE "disabled"

browse_tickets_file ==
    \E filename \in Filenames :
        /\ IF filename # ""
           THEN /\ tickets_file' = filename
                /\ analyze_button' = update_analysis_button_state(filename, report_file)
           ELSE UNCHANGED <<tickets_file, analyze_button>>
        /\ call' = "browse_tickets_file"
        /\ ret' = [raised |-> FALSE]
        /\ UNCHANGED <<engineVars, report_file, export_button, cross_ref, gui_results,
                       threads, after_queue>>

browse_report_file ==
    \E filename \in Filenames :
        /\ IF filename # ""
           THEN /\ report_file' = filename
                /\ analyze_button' = update_analysis_button_state(tickets_file, filename)
           ELSE UNCHANGED <<report_file, analyze_button>>
        /\ call' = "browse_report_file"
        /\ ret' = [raised |-> FALSE]
        /\ UNCHANGED <<engineVars, tickets_file, export_button, cross_ref, gui_results,
                       threads, after_queue>>

\* the command of the Run Analysis button: the button invokes it only while
\* its state is normal
run_analysis ==
    /\ analyze_button = "normal"
    /\ Len(threads) < MaxThreads
    /\ IF tickets_file = "" \/ report_file = ""
       THEN UNCHANGED <<analyze_button, export_button, threads>>
       ELSE /\ analyze_button' = "disabled"
            /\ export_button' = "disabled"
            /\ threads' = Append(threads, [pc |-> "NodeCrossReference", used |-> {}])
    /\ call' = "run_analysis"
    /\ ret' = [raised |-> FALSE]
    /\ UNCHANGED <<engineVars, tickets_file, report_file, cross_ref, gui_results,
                   after_queue>>

\* the calls _run_analysis_thread makes on self.cross_ref, in order
NextCall(pc) ==
    IF pc = "load_tickets" THEN "load_offline_nodes" ELSE "analyze_all_tickets"

\* line 303: self.cross_ref = NodeCrossReference()
ThreadCreatesAnalyzer(w) ==
    /\ threads[w].pc = "NodeCrossReference"
    /\ cross_ref' = w
    /\ threads' = [threads EXCEPT ![w].pc = "load_tickets"]
    /\ UNCHANGED after_queue

\* lines 309-317: one call self.cross_ref.<method>(...), on whatever
\* self.cross_ref holds now; the call returns or raises, and so does the
\* attribute access when self.cross_ref is None; after the last call, or in
\* the except clause, the thread schedules its callback and ends
ThreadCallsAnalyzer(w) ==
    /\ threads[w].pc \in {"load_tickets", "load_offline_nodes", "analyze_all_tickets"}
    /\ \E returns \in BOOLEAN :
          LET raised == cross_ref = None \/ ~returns
              last == threads[w].pc = "analyze_all_tickets"
              used == IF cross_ref = None THEN threads[w].used
                      ELSE threads[w].used \cup {cross_ref}
          IN  /\ threads' = [threads EXCEPT ![w] =
                     [pc |-> IF raised \/ last THEN "ended" ELSE NextCall(threads[w].pc),
                      used |-> used]]
              /\ after_queue' =
                     IF raised THEN Append(after_queue, [f |-> "_analysis_error", thread |-> w])
                     ELSE IF last
                     THEN Append(after_queue, [f |-> "_analysis_complete", thread |-> w])
                     ELSE after_queue
    /\ UNCHANGED cross_ref

_run_analysis_thread ==
    \E w \in 1..Len(threads) :
        /\ ThreadCreatesAnalyzer(w) \/ ThreadCallsAnalyzer(w)
        /\ call' = "_run_analysis_thread"
        /\ ret' = [raised |-> FALSE]
        /\ UNCHANGED <<engineVars, tickets_file, report_file, analyze_button,
                       export_button, gui_results>>

\* lines 326-348; `self.cross_ref.results` at line 334 raises when
\* self.cross_ref is None, before the buttons are re-enabled
_analysis_complete ==
    /\ after_queue # <<>>
    /\ Head(after_queue).f = "_analysis_complete"
    /\ after_queue' = Tail(after_queue)
    /\ IF cross_ref = None
       THEN UNCHANGED <<gui_results, analyze_button, export_button>>
       ELSE /\ gui_results' = cross_ref
            /\ analyze_button' = "normal"
            /\ export_button' = "normal"
    /\ call' = "_analysis_complete"
    /\ ret' = [raised |-> cross_ref = None, thread |-> Head(after_queue).thread]
    /\ UNCHANGED <<engineVars, tickets_file, report_file, cross_ref, threads>>

_analysis_error ==
    /\ after_queue # <<>>
    /\ Head(after_queue).f = "_analysis_error"
    /\ after_queue' = Tail(after_queue)
    /\ analyze_button' = "normal"
    /\ call' = "_analysis_error"
    /\ ret' = [raised |-> FALSE, thread |-> Head(after_queue).thread]
    /\ UNCHANGED <<engineVars, tickets_file, report_file, export_button, cross_ref,
                   gui_results, threads>>

clear_results ==
    /\ gui_results' = None
    /\ cross_ref' = None
    /\ export_button' = "disabled"
    /\ call' = "clear_results"
    /\ ret' = [raised |-> FALSE]
    /\ UNCHANGED <<engineVars, tickets_file, report_file, analyze_button, threads,
                   after_queue>>

\* the command of the Export Results button: it writes files and shows a
\* message, and catches what self.cross_ref.export_results() raises
gui_export_results ==
    /\ export_button = "normal"
    /\ call' = "export_results"
    /\ ret' = [raised |-> FALSE]
    /\ UNCHANGED <<engineVars, guiVars>>

NextGui ==
    \/ browse_tickets_file
    \/ browse_report_file
    \/ run_analysis
    \/ _run_analysis_thread
    \/ _analysis_complete
    \/ _analysis_error
    \/ clear_results
    \/ gui_export_results

SpecGui == Init /\ [][NextGui]_vars

\* the ticket's own functions, each applied to a ticket as the row loop of
\* load_tickets constructs it (store and node number not yet extracted)
NodeForms == UNION {NodePatternForms[p] : p \in 1..Len(NodePatternForms)}
NodeTokens ==
    {[k |-> f, n |-> n] : f \in NodeForms, n \in 1..3}
        \cup {[k |-> "node_word", n |-> 0], [k |-> "nodes_word", n |-> 0], Word}
Descriptions == UNION {[1..n -> NodeTokens] : n \in 0..MaxLen}

\* site and description texts made of flag phrases and other words
SitePhrases == {[k |-> f, d |-> <<>>] : f \in {"dnc", "wf", "si", "word"}}
DescPhrases == {[k |-> f, n |-> 0] : f \in {"dnc", "wf", "si", "word"}}
FlagSites == UNION {[1..n -> SitePhrases] : n \in 0..MaxLen}
FlagDescriptions == UNION {[1..n -> DescPhrases] : n \in 0..MaxLen}

\* resolved strings: none, blank, unparseable, and every tick from nine days
\* ago to the day after now
ResolvedStrings ==
    {NoDate, BlankDate, BadDate}
        \cup {DateAt(t) : t \in (Now - 9 * TicksPerDay)..(Now + 2 * TicksPerDay - 1)}

NewTicket(site, description, resolved) ==
    [number |-> 1, site |-> site, description |-> description,
     created |-> CreatedAt, resolved |-> resolved,
     store_number |-> None, node_number |-> None]

NewTickets ==
    {NewTicket(SiteStore1, d, NoDate) : d \in Descriptions}
        \cup {NewTicket(s, d, NoDate) : s \in FlagSites, d \in FlagDescriptions}
        \cup {NewTicket(SiteStore1, DescNode(1), r) : r \in ResolvedStrings}

InitPure ==
    /\ tickets \in {<<t>> : t \in NewTickets}
    /\ stores_with_tickets = {}
    /\ offline_nodes = <<>>
    /\ offline_nodes_detailed = <<>>
    /\ saf_stores = {}
    /\ both_nodes_offline_stores = {}
    /\ results = <<>>
    /\ runs = 0
    /\ call = "__init__"
    /\ ret = [raised |-> FALSE]
    /\ GuiInit

ExtractNodeNumber ==
    /\ call' = "extract_node_number"
    /\ ret' = [raised |-> FALSE, value |-> extract_node_number(tickets[1].description)]
    /\ UNCHANGED <<guiVars, tickets, stores_with_tickets, indexVars, results, runs>>

IsReopenable ==
    /\ call' = "is_reopenable"
    /\ ret' = [raised |-> FALSE, value |-> is_reopenable(tickets[1], MaxDays)]
    /\ UNCHANGED <<guiVars, tickets, stores_with_tickets, indexVars, results, runs>>

DetectBusinessLogicFlags ==
    /\ call' = "detect_business_logic_flags"
    /\ ret' = [raised |-> FALSE,
               value |-> detect_business_logic_flags(tickets[1].site,
                                                     tickets[1].description)]
    /\ UNCHANGED <<guiVars, tickets, stores_with_tickets, indexVars, results, runs>>

NextPure == ExtractNodeNumber \/ IsReopenable \/ DetectBusinessLogicFlags

SpecPure == InitPure /\ [][NextPure]_vars

\* determine_confidence applied to tickets of every store and node number
ExtractedTickets ==
    {[NewTicket(SiteStore1, DescNode(1), NoDate)
        EXCEPT !.store_number = store, !.node_number = node] :
            store \in {None, 0, 1}, node \in {None, 1, 2}}

\* the flags a caller may pass: none, the detector's and a critical one
PassedFlags == {"", "do_not_close", "workflow_status", "special_instructions",
                "critical_saf"}

InitConfidence ==
    /\ tickets \in {<<t>> : t \in ExtractedTickets}
    /\ stores_with_tickets = {}
    /\ offline_nodes = <<>>
    /\ offline_nodes_detailed = <<>>
    /\ saf_stores = {}
    /\ both_nodes_offline_stores = {}
    /\ results = <<>>
    /\ runs = 0
    /\ call = "__init__"
    /\ ret = [raised |-> FALSE]
    /\ GuiInit

DetermineConfidence ==
    \E store_in_report \in BOOLEAN, node_in_report \in BOOLEAN, business_flag \in PassedFlags :
        /\ call' = "determine_confidence"
        /\ ret' = [raised |-> FALSE, store_in_report |-> store_in_report,
                   node_in_report |-> node_in_report, business_flag |-> business_flag,
                   value |-> determine_confidence(tickets[1], store_in_report,
                                                  node_in_report, business_flag)]
        /\ UNCHANGED <<guiVars, tickets, stores_with_tickets, indexVars, results, runs>>

NextConfidence == DetermineConfidence

SpecConfidence == InitConfidence /\ [][NextConfidence]_vars

-----------------------------------------------------------------------------
(* Properties                                                              *)

Statuses == {"can_close", "needs_review", "suggest_reopen", "closed_ok",
             "closed_too_old", "error"}
BusinessFlags == {"do_not_close", "workflow_status", "special_instructions"}

\* the state right after the first analyze_all_tickets call of an instance
AfterFirstRun == call = "analyze_all_tickets" /\ runs = 1

\* the state right after a direct classifier call
AfterDirectCall == call \in {"analyze_ticket", "analyze_closed_ticket"}

FlagOfText(t) == detect_business_logic_flags(t.site, t.description)

\* closed, with a resolved timestamp that parses and is over MaxDays old
LongClosed(t) ==
    /\ is_closed(t)
    /\ resolved_datetime(t) # None
    /\ DaysOf(Now - resolved_datetime(t)) > MaxDays

\* C1: after the loads and one analyze_all_tickets call on a fresh instance,
\* results holds exactly one result for every loaded ticket, each with one
\* of the six statuses.
C1_OneResultPerTicket ==
    AfterFirstRun =>
        /\ Len(results) = Len(tickets)
        /\ \A i \in 1..Len(tickets) :
              Cardinality({j \in 1..Len(results) : results[j].ticket = tickets[i]}) = 1
        /\ \A j \in 1..Len(results) : results[j].status \in Statuses

SafOutcome(r) ==
    /\ r.status = IF is_closed(r.ticket) THEN "suggest_reopen" ELSE "needs_review"
    /\ r.business_logic_flag = "critical_saf"
    /\ r.confidence = "high"

\* C2: the run yields, for every loaded ticket of a SAF-flagged store, a
\* result with status needs_review (open) or suggest_reopen (closed), flag
\* critical_saf and confidence high, whatever the ticket's node number and
\* the flag its text matches.
C2_SafStoreCritical ==
    AfterFirstRun =>
        \A i \in 1..Len(tickets) :
            tickets[i].store_number \in saf_stores =>
                \E j \in 1..Len(results) :
                    /\ results[j].ticket = tickets[i]
                    /\ SafOutcome(results[j])

\* C3: a closed ticket resolved more than 7 days ago is classified
\* closed_too_old by the run, never suggest_reopen.
C3_LongClosedIsTooOld ==
    AfterFirstRun =>
        \A j \in 1..Len(results) :
            LongClosed(results[j].ticket) => results[j].status = "closed_too_old"

\* C4 as stated: every returned result carrying one of the three business
\* flags has confidence low, whatever its status.
C4_FlagMeansLow ==
    (AfterDirectCall /\ ~ret.raised /\ ret.result.business_logic_flag \in BusinessFlags)
        => ret.result.confidence = "low"

\* C4 as amended: a returned result carrying one of the three business flags
\* has confidence low when its status is needs_review or error, and high when
\* it is closed_too_old or the can_close of the workflow-status relief rule;
\* it has no other status.
C4_FlagConfidenceByStatus ==
    (AfterDirectCall /\ ~ret.raised /\ ret.result.business_logic_flag \in BusinessFlags)
        => \/ /\ ret.result.status \in {"needs_review", "error"}
              /\ ret.result.confidence = "low"
           \/ /\ ret.result.status = "closed_too_old"
              /\ ret.result.confidence = "high"
           \/ /\ ret.result.status = "can_close"
              /\ ret.result.business_logic_flag = "workflow_status"
              /\ ret.result.confidence = "high"

\* analyze_ticket returned needs_review for a do-not-close ticket whose
\* store is not in the report
C4_Witness ==
    /\ call = "analyze_ticket"
    /\ ~ret.raised
    /\ ret.result.business_logic_flag = "do_not_close"
    /\ ret.result.status = "needs_review"
    /\ ~ret.result.store_in_report
    /\ ret.result.confidence = "low"

\* the precondition of C5 on the ticket of the last direct call
C5_Pre(t) ==
    /\ t.node_number \in {1, 2}
    /\ t.store_number \in DOMAIN offline_nodes
    /\ t.store_number \notin saf_stores
    /\ t.store_number \notin both_nodes_offline_stores
    /\ FlagOfText(t) = ""
    /\ ~(is_closed(t) /\ ~is_reopenable(t, MaxDays))

C5_Outcome(r, t, if_offline, if_online) ==
    LET member == t.node_number \in offline_nodes[t.store_number]
    IN  /\ r.status = IF member THEN if_offline ELSE if_online
        /\ r.node_in_report = member
        /\ r.store_in_report
        /\ r.confidence = "high"

\* C5: a ticket with node number 1 or 2 whose store is in the index, outside
\* the SAF, both-nodes, business-flag and closure-age rules, is classified by
\* the membership of its node in the store's offline set: needs_review or
\* can_close when open, suggest_reopen or closed_ok when closed, with
\* node_in_report equal to the membership, store_in_report true and
\* confidence high.
C5_NodeMembershipDecides ==
    /\ (call = "analyze_ticket" /\ ~is_closed(ret.ticket) /\ C5_Pre(ret.ticket))
          => /\ ~ret.raised
             /\ C5_Outcome(ret.result, ret.ticket, "needs_review", "can_close")
    /\ (call = "analyze_closed_ticket" /\ is_closed(ret.ticket) /\ C5_Pre(ret.ticket))
          => /\ ~ret.raised
             /\ C5_Outcome(ret.result, ret.ticket, "suggest_reopen", "closed_ok")

\* analyze_closed_ticket suggested the reopening of a recently closed ticket
\* whose node is offline while the other node is not
C5_Witness ==
    /\ call = "analyze_closed_ticket"
    /\ is_closed(ret.ticket)
    /\ C5_Pre(ret.ticket)
    /\ offline_nodes[ret.ticket.store_number] = {ret.ticket.node_number}
    /\ ret.result.status = "suggest_reopen"

\* C6: for an open ticket of a resolved store that is neither SAF-flagged nor
\* both-nodes-offline and whose text matches a business flag, the status is
\* can_close exactly when the flag is workflow_status and the store is absent
\* from the index or the resolved node is not in its offline set; otherwise
\* it is needs_review with that flag and confidence low.
C6_FlagRule ==
    LET t == ret.ticket
        flag == FlagOfText(t)
        relief ==
            /\ flag = "workflow_status"
            /\ \/ t.store_number \notin DOMAIN offline_nodes
               \/ /\ t.node_number # None
                  /\ t.node_number \notin offline_nodes[t.store_number]
    IN  (/\ call = "analyze_ticket"
         /\ ~is_closed(t)
         /\ t.store_number # None
         /\ t.store_number \notin saf_stores
         /\ t.store_number \notin both_nodes_offline_stores
         /\ flag # "")
          => /\ ~ret.raised
             /\ IF relief THEN ret.result.status = "can_close"
                ELSE /\ ret.result.status = "needs_review"
                     /\ ret.result.business_logic_flag = flag
                     /\ ret.result.confidence = "low"

\* C7 as stated: the i-th result refers to the i-th loaded ticket.
C7_InputOrder ==
    AfterFirstRun => \A j \in 1..Len(results) : results[j].ticket = tickets[j]

\* ticket a is analysed before ticket b: open before closed, and within each
\* kind as loaded
Before(a, b) ==
    \/ ~is_closed(a) /\ is_closed(b)
    \/ is_closed(a) = is_closed(b) /\ a.number < b.number

\* C7 as amended: results holds the results of the open tickets in input
\* order followed by those of the closed tickets in input order: all of them
\* when the run returns, and the leading part of that order when it raises.
C7_OpenThenClosedOrder ==
    AfterFirstRun =>
        /\ \A i, j \in 1..Len(results) :
              i < j => Before(results[i].ticket, results[j].ticket)
        /\ \A j \in 1..Len(results) : \E i \in 1..Len(tickets) :
              results[j].ticket = tickets[i]
        /\ \A i \in 1..Len(tickets) :
              (\A j \in 1..Len(results) : results[j].ticket # tickets[i])
                 => /\ ret.raised
                    /\ \A j \in 1..Len(results) : Before(results[j].ticket, tickets[i])

\* a run over a closed ticket loaded ahead of an open one
C7_Witness ==
    /\ AfterFirstRun
    /\ Len(tickets) = 2
    /\ Len(results) = 2
    /\ is_closed(tickets[1])
    /\ ~is_closed(tickets[2])
    /\ results[1].ticket = tickets[2]
    /\ results[2].ticket = tickets[1]

\* C8: analyze_ticket and analyze_closed_ticket return a result and never
\* raise, for every ticket and every index load_offline_nodes can build.
C8_NeverRaises == AfterDirectCall => ~ret.raised

\* how many advisories of a list name the pair (store, node)
CountOf(advisories, store, node) ==
    Cardinality({i \in 1..Len(advisories) :
                    /\ advisories[i].store_number = store
                    /\ advisories[i].node_number = node})

\* C9: get_missing_tickets returns exactly one advisory for every offline
\* (store, node) whose store no loaded ticket resolves to, and none for a
\* store that some loaded ticket resolves to, store 0 included.
C9_MissingExactlyUncovered ==
    call = "get_missing_tickets" =>
        \A store \in DOMAIN offline_nodes, node \in {1, 2} :
            CountOf(ret.value, store, node) =
                IF /\ node \in offline_nodes[store]
                   /\ \A i \in 1..Len(tickets) : tickets[i].store_number # store
                THEN 1 ELSE 0

\* C10: every key (store, node) of offline_nodes_detailed has node 1 or 2,
\* store a key of offline_nodes and node a member of offline_nodes[store].
C10_DetailKeysInCoarseMap ==
    \A key \in DOMAIN offline_nodes_detailed :
        /\ key[2] \in {1, 2}
        /\ key[1] \in DOMAIN offline_nodes
        /\ key[2] \in offline_nodes[key[1]]

\* a store holds detail records of both nodes after a later load reset the
\* critical sets
C10_Witness ==
    \E store \in DOMAIN offline_nodes :
        /\ <<store, 1>> \in DOMAIN offline_nodes_detailed
        /\ <<store, 2>> \in DOMAIN offline_nodes_detailed
        /\ store \notin both_nodes_offline_stores

\* the reference of token tok is one that patterns[p] matches
PatternHits(p, tok) == tok.k \in NodePatternForms[p]

\* C11: extract_node_number returns 1, 2 or absent; the first pattern of the
\* catalogue that matches anywhere in the text decides: its leftmost match's
\* integer if that is 1 or 2, absent otherwise, no later pattern being
\* consulted; absent when no pattern matches.
C11_FirstMatchingPatternDecides ==
    call = "extract_node_number" =>
        LET desc == tickets[1].description
            Matches(p) == \E i \in 1..Len(desc) : PatternHits(p, desc[i])
        IN  /\ ret.value \in {1, 2, None}
            /\ (\A p \in 1..Len(NodePatternForms) : ~Matches(p)) => ret.value = None
            /\ \A p \in 1..Len(NodePatternForms) :
                  (Matches(p) /\ \A q \in 1..(p - 1) : ~Matches(q)) =>
                     \E i \in 1..Len(desc) :
                        /\ PatternHits(p, desc[i])
                        /\ \A j \in 1..(i - 1) : ~PatternHits(p, desc[j])
                        /\ ret.value = IF desc[i].n \in {1, 2} THEN desc[i].n ELSE None

\* "NODE 3 ... NODE(1)": the first pattern captured 3, a later pattern
\* would have captured 1, and the result is absent
C11_Witness ==
    /\ call = "extract_node_number"
    /\ tickets[1].description = <<[k |-> "bare", n |-> 3], [k |-> "paren", n |-> 1]>>
    /\ ret.value = None

\* C12: is_reopenable(max_days=7) is false when resolved is missing or blank,
\* when it does not parse, or when more than 7 whole days have elapsed since
\* it; it is true otherwise, at exactly 7 elapsed days and for a resolved
\* timestamp in the future too.
C12_ReopenableWithinSevenDays ==
    call = "is_reopenable" =>
        LET resolved == tickets[1].resolved
        IN  ret.value = (/\ resolved.k = "ts"
                         /\ Now - resolved.t < (7 + 1) * TicksPerDay)

\* resolved seven days and most of a day ago: reopenable
C12_Witness ==
    /\ call = "is_reopenable"
    /\ tickets[1].resolved = DateAt(Now - 7 * TicksPerDay - (TicksPerDay - 1))
    /\ ret.value

Occurs(kind) ==
    \/ \E i \in 1..Len(tickets[1].site) : tickets[1].site[i].k = kind
    \/ \E i \in 1..Len(tickets[1].description) : tickets[1].description[i].k = kind

\* C14: detect_business_logic_flags returns one flag at most, by fixed
\* priority over the combined site and description text: do_not_close if a
\* do-not-close phrase occurs, else workflow_status if a workflow phrase
\* occurs, else special_instructions if a deferred-action phrase occurs,
\* else none.
C14_FlagPriority ==
    call = "detect_business_logic_flags" =>
        /\ ret.value \in {"", "do_not_close", "workflow_status", "special_instructions"}
        /\ ret.value = "do_not_close" <=> Occurs("dnc")
        /\ ret.value = "workflow_status" <=> (Occurs("wf") /\ ~Occurs("dnc"))
        /\ ret.value = "special_instructions" <=>
              (Occurs("si") /\ ~Occurs("wf") /\ ~Occurs("dnc"))
        /\ ret.value = "" <=> (~Occurs("si") /\ ~Occurs("wf") /\ ~Occurs("dnc"))

\* a workflow phrase in the site, a deferred-action phrase and a
\* do-not-close phrase in the description: do_not_close
C14_Witness ==
    /\ call = "detect_business_logic_flags"
    /\ \E i \in 1..Len(tickets[1].site) : tickets[1].site[i].k = "wf"
    /\ \E i \in 1..Len(tickets[1].description) : tickets[1].description[i].k = "dnc"
    /\ \E i \in 1..Len(tickets[1].description) : tickets[1].description[i].k = "si"
    /\ ret.value = "do_not_close"

\* C15: determine_confidence is low if a business flag is passed, or the
\* store is unresolved, or the node is unresolved while the store is in the
\* report; in every other case the store is absent from the report or the
\* node is resolved, and it is high; medium is left for no case.
C15_ConfidenceTable ==
    call = "determine_confidence" =>
        LET t == tickets[1]
            low == \/ ret.business_flag # ""
                   \/ t.store_number = None
                   \/ (t.node_number = None /\ ret.store_in_report)
        IN  /\ low => ret.value = "low"
            /\ (~low /\ ~ret.store_in_report) => ret.value = "high"
            /\ (~low /\ ret.store_in_report /\ t.node_number # None) => ret.value = "high"
            /\ ret.value \in {"low", "high"}

\* store 0, node unresolved, store not in the report, no flag: high
C15_Witness ==
    /\ call = "determine_confidence"
    /\ tickets[1].store_number = 0
    /\ tickets[1].node_number = None
    /\ ~ret.store_in_report
    /\ ret.business_flag = ""
    /\ ret.value = "high"

\* C16: every advisory of a store carries the priority and urgency of the
\* first rule that matches the store: in saf_stores, CRITICAL - SAF and
\* Immediate; else in both_nodes_offline_stores, CRITICAL - Both Nodes and
\* Immediate; else more than one offline node, High; else Medium.
C16_AdvisoryPriority ==
    call = "get_missing_tickets" =>
        \A i \in 1..Len(ret.value) :
            LET a == ret.value[i]
                saf == a.store_number \in saf_stores
                both == a.store_number \in both_nodes_offline_stores
                many == Cardinality(offline_nodes[a.store_number]) > 1
            IN  /\ saf => a.priority = "CRITICAL - SAF" /\ a.urgency = "Immediate"
                /\ (~saf /\ both) =>
                      a.priority = "CRITICAL - Both Nodes" /\ a.urgency = "Immediate"
                /\ (~saf /\ ~both /\ many) => a.priority = "High" /\ a.urgency = "High"
                /\ (~saf /\ ~both /\ ~many) =>
                      a.priority = "Medium" /\ a.urgency = "Medium"

\* two advisories of a store that is SAF-flagged and has both nodes
\* offline, both CRITICAL - SAF
C16_Witness ==
    /\ call = "get_missing_tickets"
    /\ \E i, j \in 1..Len(ret.value) :
          /\ i # j
          /\ ret.value[i].store_number = ret.value[j].store_number
          /\ ret.value[i].store_number \in saf_stores \cap both_nodes_offline_stores
          /\ ret.value[i].priority = "CRITICAL - SAF"
          /\ ret.value[j].priority = "CRITICAL - SAF"

\* C17: for a closed ticket with a resolved node number that has a detail
\* record, whose resolved string and the record's last-seen string both
\* parse, analyze_temporal_correlation reports a timeline anomaly exactly
\* when last-seen is after resolved, whether or not created parses.
C17_AnomalyIffSeenAfterResolved ==
    LET t == tickets[1]
        key == <<t.store_number, t.node_number>>
    IN  (/\ call = "analyze_temporal_correlation"
         /\ is_closed(t)
         /\ t.node_number # None
         /\ key \in DOMAIN offline_nodes_detailed
         /\ t.resolved.k = "ts"
         /\ offline_nodes_detailed[key].last_seen.k = "ts")
          => /\ ~ret.raised
             /\ ret.issue = (offline_nodes_detailed[key].last_seen.t > t.resolved.t)

\* the suffixes of the 'node unresolved but store has offline nodes' rule
UnresolvedSuffixes ==
    {"but couldn't identify specific node from description",
     "but couldn't identify specific node - SUGGEST REVIEW FOR REOPEN"}

\* C18: a result of the 'node unresolved but store has offline nodes' rule
\* has a reason naming exactly the members of offline_nodes[store], at
\* least one: 'Node N is offline ...' for one node, 'Nodes 1 and 2 are
\* offline ...' otherwise.
C18_ReasonNamesOfflineNodes ==
    (/\ AfterDirectCall
     /\ ~ret.raised
     /\ \E x \in UnresolvedSuffixes :
           ret.result.reason.k \in {"Node N is offline " \o x,
                                    "Nodes N and M are offline " \o x})
      => LET named == ret.result.reason.nodes
         IN  /\ named # {}
             /\ named = offline_nodes[ret.ticket.store_number]
             /\ \E x \in UnresolvedSuffixes :
                   ret.result.reason.k =
                      IF Cardinality(named) = 1 THEN "Node N is offline " \o x
                      ELSE "Nodes N and M are offline " \o x
             /\ Cardinality(named) # 1 => named = {1, 2}

\* the result of the last analyze_ticket call is a needs_review
NeedsReviewReturned ==
    call = "analyze_ticket" /\ ~ret.raised /\ ret.result.status = "needs_review"

\* the result carries the narrative and the days_offline that
\* analyze_temporal_correlation computes for its ticket
CarriesCorrelation ==
    /\ ret.result.temporal_analysis = analyze_temporal_correlation(ret.ticket).narrative
    /\ ret.result.days_offline = analyze_temporal_correlation(ret.ticket).days

ColumnOf(header, name) == CHOOSE k \in 1..Len(header) : header[k] = name

\* row is the row of result under header: as long as the header, with the
\* result's values under the columns that name them
RowUnderHeader(row, header, result) ==
    /\ Len(row) = Len(header)
    /\ row[ColumnOf(header, "Ticket_Number")] = result.ticket.number
    /\ row[ColumnOf(header, "Site")] = result.ticket.site
    /\ row[ColumnOf(header, "Description")] = result.ticket.description
    /\ row[ColumnOf(header, "Priority")] = "t.priority"
    /\ row[ColumnOf(header, "Created")] = result.ticket.created
    /\ row[ColumnOf(header, "Updated")] = "t.updated"
    /\ row[ColumnOf(header, "Resolved")] = ResolvedOrBlank(result.ticket)
    /\ row[ColumnOf(header, "Assignment_Group")] = "t.assignment_group"
    /\ row[ColumnOf(header, "Ticket_Status")] =
          (IF is_closed(result.ticket) THEN "CLOSED" ELSE "OPEN")
    /\ row[ColumnOf(header, "Store_Number")] = result.ticket.store_number
    /\ row[ColumnOf(header, "Node_Number")] = result.ticket.node_number
    /\ row[ColumnOf(header, "Days_Offline")] = result.days_offline
    /\ row[ColumnOf(header, "Reopenable")] = (IF result.reopenable THEN "Yes" ELSE "No")
    /\ row[ColumnOf(header, "Confidence")] = result.confidence
    /\ row[ColumnOf(header, "Business_Flag")] = result.business_logic_flag
    /\ row[ColumnOf(header, "Temporal_Analysis")] = result.temporal_analysis
    /\ row[ColumnOf(header, "Reason")] = result.reason

\* every row of a category output is the row of the result of that status
\* at its place, under a header of 17 columns
OutputAligned(output, status) ==
    output # <<>> =>
        /\ Len(output[1]) = 17
        /\ Len(output) = 1 + Len(WithStatus(status))
        /\ \A i \in 2..Len(output) :
              RowUnderHeader(output[i], output[1], WithStatus(status)[i - 1])

\* C20: every ticket row that export_results and export_to_excel write to
\* a category output (Can Close, Need Review, Suggest Reopen, Closed OK,
\* Errors) has exactly 17 fields, one per header column and in the
\* header's order.
C20_RowsMatchHeader ==
    call = "export_results" =>
        \A status \in ExportedStatuses :
            /\ OutputAligned(ret.csv[status], status)
            /\ OutputAligned(ret.excel[status], status)

\* an export that wrote one needs_review row to the CSV file and the sheet
C20_Witness ==
    /\ call = "export_results"
    /\ Len(ret.csv["needs_review"]) = 2
    /\ Len(ret.excel["needs_review"]) = 2
    /\ ret.excel["needs_review"][2][10] = 1

\* the flag rule of the open table: a workflow-status ticket whose store is
\* absent or whose resolved node is back online can close; any other flagged
\* ticket needs review with its flag and confidence low
OpenFlagRow(r, t, flag) ==
    IF /\ flag = "workflow_status"
       /\ \/ t.store_number \notin DOMAIN offline_nodes
          \/ /\ t.node_number # None
             /\ t.node_number \notin offline_nodes[t.store_number]
    THEN r.status = "can_close"
    ELSE /\ r.status = "needs_review"
         /\ r.business_logic_flag = flag
         /\ r.confidence = "low"

\* the ordered open-ticket table: the first row whose condition holds of
\* ticket t and the index decides result r
OpenTableRow(r, t) ==
    LET flag == FlagOfText(t)
    IN  IF is_closed(t) /\ ~is_reopenable(t, MaxDays)
        THEN r.status = "closed_too_old" /\ r.confidence = "high"
        ELSE IF t.store_number = None
        THEN r.status = "error"
        ELSE IF t.store_number \in saf_stores
        THEN /\ r.status = "needs_review"
             /\ r.confidence = "high"
             /\ r.business_logic_flag = "critical_saf"
        ELSE IF t.store_number \in both_nodes_offline_stores
        THEN /\ r.status = "needs_review"
             /\ r.confidence = "high"
             /\ r.business_logic_flag = "critical_both_nodes_offline"
        ELSE IF flag # ""
        THEN OpenFlagRow(r, t, flag)
        ELSE IF t.store_number \notin DOMAIN offline_nodes
        THEN r.status = "can_close" /\ r.confidence = "high"
        ELSE IF t.node_number = None
        THEN r.status = "needs_review" /\ r.confidence = "low"
        ELSE IF t.node_number \in offline_nodes[t.store_number]
        THEN r.status = "needs_review" /\ r.confidence = "high"
        ELSE r.status = "can_close" /\ r.confidence = "high"

\* C21: for every ticket and every index, analyze_ticket returns a result
\* whose status, confidence and business_logic_flag are those of the first
\* matching row of the ordered open-ticket table.
C21_OpenTable ==
    call = "analyze_ticket" =>
        /\ ~ret.raised
        /\ OpenTableRow(ret.result, ret.ticket)

\* the ordered closed-ticket table: the first row whose condition holds of
\* ticket t and the index decides result r
ClosedTableRow(r, t) ==
    IF t.store_number = None
    THEN r.status = "error"
    ELSE IF t.store_number \notin DOMAIN offline_nodes
    THEN r.status = "closed_ok" /\ r.confidence = "high"
    ELSE IF t.store_number \in saf_stores
    THEN /\ r.status = "suggest_reopen"
         /\ r.confidence = "high"
         /\ r.business_logic_flag = "critical_saf"
    ELSE IF t.store_number \in both_nodes_offline_stores
    THEN /\ r.status = "suggest_reopen"
         /\ r.confidence = "high"
         /\ r.business_logic_flag = "critical_both_nodes_offline"
    ELSE IF t.node_number = None /\ offline_nodes[t.store_number] # {}
    THEN r.status = "suggest_reopen" /\ r.confidence = "medium"
    ELSE IF t.node_number # None /\ t.node_number \in offline_nodes[t.store_number]
    THEN r.status = "suggest_reopen" /\ r.confidence = "high"
    ELSE r.status = "closed_ok" /\ r.confidence = "high"

\* C22: for every closed ticket and every index load_offline_nodes can
\* build, stores without any offline node included, analyze_closed_ticket
\* returns a result whose status, confidence and flag are those of the first
\* matching row of the ordered closed-ticket table.
C22_ClosedTable ==
    (call = "analyze_closed_ticket" /\ is_closed(ret.ticket)) =>
        /\ ~ret.raised
        /\ ClosedTableRow(ret.result, ret.ticket)

\* C23: after every load_offline_nodes call that completes, the first or a
\* further one, both_nodes_offline_stores is exactly the set of the stores
\* whose offline set holds at least two nodes.
C23_BothIffTwoNodes ==
    (call = "load_offline_nodes" /\ ~ret.raised) =>
        both_nodes_offline_stores =
            {s \in DOMAIN offline_nodes : Cardinality(offline_nodes[s]) >= 2}

\* C24: a load_offline_nodes call that raises, the report being blank or
\* holding no store section, leaves offline_nodes, offline_nodes_detailed,
\* saf_stores and both_nodes_offline_stores as they were before the call.
C24_FailedLoadKeepsIndex ==
    [][(call' = "load_offline_nodes" /\ ret'.raised) => UNCHANGED indexVars]_vars

\* s is a prefix of t
IsPrefix(s, t) == Len(s) <= Len(t) /\ SubSeq(t, 1, Len(s)) = s

\* C25: analyze_ticket, analyze_closed_ticket and get_missing_tickets leave
\* the tickets (their cached store and node numbers included), the index,
\* stores_with_tickets and results unchanged; results changes only by an
\* analyze_all_tickets call appending to it.
C25_OnlyTheRunWrites ==
    [][/\ call' \in {"analyze_ticket", "analyze_closed_ticket", "get_missing_tickets"}
          => UNCHANGED <<tickets, stores_with_tickets, indexVars, results>>
       /\ results' # results
          => /\ call' = "analyze_all_tickets"
             /\ IsPrefix(results, results')
             /\ UNCHANGED <<tickets, stores_with_tickets, indexVars>>]_vars

\* analyze_closed_ticket suggested a reopening after the run had stored its
\* one result, and results still holds that one result
C25_Witness ==
    /\ call = "analyze_closed_ticket"
    /\ ~ret.raised
    /\ ret.result.status = "suggest_reopen"
    /\ runs = 1
    /\ Len(results) = 1
    /\ results[1].ticket = tickets[1]

\* the threads still executing _run_analysis_thread
RunningThreads == {w \in 1..Len(threads) : threads[w].pc # "ended"}

\* the runs started whose callback has not run yet
OpenRuns ==
    {w \in 1..Len(threads) :
        \/ threads[w].pc # "ended"
        \/ \E i \in 1..Len(after_queue) : after_queue[i].thread = w}

\* C26: at most one analysis thread runs at a time, and from run_analysis
\* until the run's _analysis_complete or _analysis_error the Run Analysis
\* button is disabled, whatever UI events come in between.
C26_OneRunAtATime ==
    /\ Cardinality(RunningThreads) <= 1
    /\ OpenRuns # {} => analyze_button = "disabled"

\* the callbacks of thread w waiting in the queue
Pending(w) == {i \in 1..Len(after_queue) : after_queue[i].thread = w}

\* C27: a run schedules one callback, when its thread ends; the callback
\* runs to its end and leaves Run Analysis enabled; and when it is
\* _analysis_complete, self.cross_ref is not None and is the analyzer the
\* finished thread worked on, whatever clear_results did in between.
C27_RunEndsInItsCallback ==
    /\ \A w \in 1..Len(threads) :
          Cardinality(Pending(w)) <= (IF threads[w].pc = "ended" THEN 1 ELSE 0)
    /\ call \in {"_analysis_complete", "_analysis_error"} =>
          /\ ~ret.raised
          /\ analyze_button = "normal"
    /\ call = "_analysis_complete" =>
          /\ cross_ref # None
          /\ threads[ret.thread].used = {cross_ref}

\* C28: however many analyze_all_tickets calls an instance has made, results
\* holds at most one result for each loaded ticket.
C28_NoDuplicateResults ==
    \A i \in 1..Len(tickets) :
        Cardinality({j \in 1..Len(results) : results[j].ticket = tickets[i]}) <= 1

\* C29: every result analyze_ticket or analyze_closed_ticket returns has
\* reopenable true when its ticket is open and equal to is_reopenable(7)
\* when it is closed, whichever rule produced it.
C29_ReopenableFollowsTicket ==
    (AfterDirectCall /\ ~ret.raised) =>
        ret.result.reopenable =
            (IF is_closed(ret.ticket) THEN is_reopenable(ret.ticket, MaxDays) ELSE TRUE)

\* the ticket's node number is resolved and in its store's offline set
NodeListedOffline(t) ==
    /\ t.node_number # None
    /\ t.store_number \in DOMAIN offline_nodes
    /\ t.node_number \in offline_nodes[t.store_number]

\* C30 as stated: in every returned result, node_in_report is true only if
\* the ticket's node number is resolved and in offline_nodes[store], and
\* store_in_report only if the store is a key of offline_nodes, the SAF and
\* both-nodes-offline results included.
C30_ReportFlagsFollowIndex ==
    (AfterDirectCall /\ ~ret.raised) =>
        /\ ret.result.store_in_report =>
              ret.ticket.store_number \in DOMAIN offline_nodes
        /\ ret.result.node_in_report => NodeListedOffline(ret.ticket)

\* C30 as amended: store_in_report is true only if the store is a key of
\* offline_nodes; node_in_report is true only if the result is a SAF or
\* both-nodes-offline result, which set it whatever the ticket's node, or
\* the ticket's node number is resolved and in offline_nodes[store].
C30_NodeFlagExceptCritical ==
    (AfterDirectCall /\ ~ret.raised) =>
        /\ ret.result.store_in_report =>
              ret.ticket.store_number \in DOMAIN offline_nodes
        /\ ret.result.node_in_report =>
              \/ ret.result.business_logic_flag
                    \in {"critical_saf", "critical_both_nodes_offline"}
              \/ NodeListedOffline(ret.ticket)

\* analyze_ticket returned the SAF result, node_in_report set, for a ticket
\* whose resolved node is not in the store's offline set
C30_Witness ==
    /\ call = "analyze_ticket"
    /\ ~ret.raised
    /\ ret.result.business_logic_flag = "critical_saf"
    /\ ret.result.node_in_report
    /\ ret.result.store_in_report
    /\ ret.ticket.node_number # None
    /\ ret.ticket.node_number \notin offline_nodes[ret.ticket.store_number]

====
